---- MODULE Spec2Model ----
(***************************************************************************)
(* The page layer of the buffer cache (src/buffer_cache/alt/page.cc):      *)
(* page_t, page_acq_t, page_ptr_t and the three load coroutines.           *)
(*                                                                         *)
(* The code's functions are operators from a heap record to a heap record, *)
(* composed in the order the code calls them; an action is one atomic      *)
(* section of a coroutine (the code between two suspension points).        *)
(* The evicter, the serializer and the signal are collaborators whose code *)
(* is not in page.cc; they are modelled from the specification.            *)
(***************************************************************************)
EXTENDS Integers, Sequences, FiniteSets, TLC

(* ------------------------------ bounds -------------------------------- *)
\* page_t objects that may exist at once (addresses the allocator hands out)
MaxPages == 2
\* page_ptr_t handles owned by consumers; each consumer also owns one page_acq_t
NumHolders == 2
\* block ids on disk
NumBlocks == 1
\* buffer contents range over 0..MaxVal
MaxVal == 1

(* ----------------------------- constants ------------------------------ *)
NULL == 0
NoBuf == -1
NoToken == 0

Pages == 1..MaxPages
Holders == 1..NumHolders
Blocks == 1..NumBlocks
Values == 0..MaxVal
\* the page_acq_t local to load_from_copyee of page p
TaskAcq(p) == NumHolders + p
Acqs == 1..(NumHolders + MaxPages)

VARIABLES
    alive,              \* page_t objects between constructor and delete
    buf_,               \* page_t::buf_ (contents, or NoBuf)
    block_token_,       \* page_t::block_token_ (the block it names, or NoToken)
    ser_buf_size_,      \* page_t::ser_buf_size_
    destroy_ptr_,       \* page_t::destroy_ptr_ (the load task owning the flag, or NULL)
    snapshot_refcount_, \* page_t::snapshot_refcount_
    waiters_,           \* page_t::waiters_ (sequence of page_acq_t)
    bag,                \* the evicter bag holding the page
    in_memory_size,     \* the evicter's accounted size of the bags with a buffer
    task_kind,          \* the load coroutine suspended for the page slot
    task_arg,           \* its argument: block id, block token or copyee
    page_destroyed,     \* its stack-local flag
    acq_page_,          \* page_acq_t::page_
    buf_ready_signal_,  \* page_acq_t::buf_ready_signal_ (number of pulses)
    ptr_page_,          \* page_ptr_t::page_
    drainer_locks,      \* auto_drainer_t::lock_t objects alive
    mallocs,            \* serializer buffers allocated and not freed
    crashed,            \* the rassert / crash that aborted the process, or ""
    pulse_order,        \* the last step's pulse_waiters loop: the signals it pulsed, in
                        \* order, when it pulsed more than one
    token_dropped,      \* the page whose block token the last step's
                        \* reset_block_token released, or NULL
    attach_order,       \* per page, the attached acquisitions by time of attach
    pre_evict,          \* per page, the buffer contents evict_self dropped
    writer,             \* the holder obtained its page from get_page_for_write
    cow_from,           \* the page get_page_for_write copied for the holder
    view                \* the contents the holder's snapshot stands for

heap_vars == <<alive, buf_, block_token_, ser_buf_size_, destroy_ptr_,
               snapshot_refcount_, waiters_, bag, in_memory_size, task_kind,
               task_arg, page_destroyed, acq_page_, buf_ready_signal_,
               ptr_page_, drainer_locks, mallocs, crashed, pulse_order,
               token_dropped>>
ghost_vars == <<attach_order, pre_evict, writer, cow_from, view>>
vars == <<heap_vars, ghost_vars>>

\* The heap an atomic section starts from.
Cur ==
    [alive |-> alive, buf_ |-> buf_, block_token_ |-> block_token_,
     ser_buf_size_ |-> ser_buf_size_, destroy_ptr_ |-> destroy_ptr_,
     snapshot_refcount_ |-> snapshot_refcount_, waiters_ |-> waiters_,
     bag |-> bag, in_memory_size |-> in_memory_size,
     task_kind |-> task_kind, task_arg |-> task_arg,
     page_destroyed |-> page_destroyed, acq_page_ |-> acq_page_,
     buf_ready_signal_ |-> buf_ready_signal_, ptr_page_ |-> ptr_page_,
     drainer_locks |-> drainer_locks, mallocs |-> mallocs,
     crashed |-> crashed, pulse_order |-> <<>>, token_dropped |-> NULL]

\* rassert(cond): the first failing assertion aborts the process.
rassert(s, cond, msg) ==
    IF cond \/ s.crashed # "" THEN s ELSE [s EXCEPT !.crashed = msg]

(* ----------------------------- serializer ----------------------------- *)
\* contents of block b on disk; page.cc never writes a block back
DiskContent(b) == b % (MaxVal + 1)
\* serializer->index_read(block_id): the token names the block's location
index_read(b) == b
\* serializer->block_read(token, buf): the contents at the token's location
block_read(token) == DiskContent(token)
\* block_size.ser_value(), of a token or of a fresh buffer: one block size for the cache
ser_value(x) == 1

(* ------------------------------ evicter ------------------------------- *)
correct_eviction_category(s, p) ==
    IF s.destroy_ptr_[p] # NULL \/ s.waiters_[p] # <<>> THEN "unevictable"
    ELSE IF s.buf_[p] = NoBuf THEN "evicted"
    ELSE IF s.block_token_[p] # NoToken THEN "evictable_disk_backed"
    ELSE "evictable_unbacked"

\* size accounted for a page while it is in the given bag
bag_size(s, p, b) ==
    IF b \in {"unevictable", "evictable_disk_backed", "evictable_unbacked"}
    THEN s.ser_buf_size_[p] ELSE 0

bag_add(s, p, b) ==
    [s EXCEPT !.bag[p] = b,
              !.in_memory_size = @ + bag_size(s, p, b)]

bag_remove(s, p, b) ==
    LET s1 == rassert(s, s.bag[p] = b, "bag has_page")
    IN [s1 EXCEPT !.bag[p] = "none",
                  !.in_memory_size = @ - bag_size(s, p, b)]

add_not_yet_loaded(s, p) == bag_add(s, p, "unevictable")
add_to_evictable_unbacked(s, p) == bag_add(s, p, "evictable_unbacked")
add_to_evictable_disk_backed(s, p) == bag_add(s, p, "evictable_disk_backed")

add_now_loaded_size(s, size) ==
    [s EXCEPT !.in_memory_size = @ + size]

page_is_in_unevictable_bag(s, p) == s.bag[p] = "unevictable"

change_to_correct_eviction_bag(s, old_bag, p) ==
    LET s1 == bag_remove(s, p, old_bag)
    IN bag_add(s1, p, correct_eviction_category(s1, p))

move_unevictable_to_evictable(s, p) ==
    LET s1 == bag_remove(s, p, "unevictable")
        nb == correct_eviction_category(s1, p)
        s2 == rassert(s1, nb \in {"evictable_disk_backed", "evictable_unbacked"},
                      "move_unevictable_to_evictable: new bag evictable")
    IN bag_add(s2, p, nb)

remove_page(s, p) ==
    bag_remove(s, p, correct_eviction_category(s, p))

(* ------------------------------- signal ------------------------------- *)
pulse(s, a) ==
    [s EXCEPT !.buf_ready_signal_[a] = @ + 1]

(* ------------------------------- page_t ------------------------------- *)
\* (mutant) only the head of the waiter list is pulsed
pulse_head(s, list) ==
    IF list = <<>> THEN s ELSE pulse(s, Head(list))

RECURSIVE pulse_each(_, _)
\* the loop of pulse_waiters_or_make_evictable, from waiters_.head() on
pulse_each(s, list) ==
    IF list = <<>> THEN s
    ELSE pulse_each([pulse(s, Head(list)) EXCEPT
                         !.pulse_order = Append(@, Head(list))],
                    Tail(list))

\* (mutant) a completion that leaves the page in the unevictable bag
pulse_waiters_only(s, p) ==
    LET s1 == rassert(s, page_is_in_unevictable_bag(s, p),
                      "pulse_waiters_or_make_evictable: in unevictable bag")
    IN pulse_each(s1, s1.waiters_[p])

pulse_waiters_or_make_evictable(s, p) ==
    LET s1 == rassert(s, page_is_in_unevictable_bag(s, p),
                      "pulse_waiters_or_make_evictable: in unevictable bag")
    IN IF s1.waiters_[p] = <<>>
       THEN move_unevictable_to_evictable(s1, p)
       ELSE pulse_each(s1, s1.waiters_[p])

\* (mutant) a load coroutine that takes no drainer lock
task_begin_no_lock(s, p, kind, arg) ==
    LET s1 == rassert(s, s.destroy_ptr_[p] = NULL, "load: destroy_ptr_ == NULL")
    IN [s1 EXCEPT !.page_destroyed[p] = FALSE,
                  !.destroy_ptr_[p] = p,
                  !.task_kind[p] = kind,
                  !.task_arg[p] = arg]

\* every load coroutine up to its flag and drainer lock (lines 74-78, 116-120, 218-222)
task_begin(s, p, kind, arg) ==
    LET s1 == rassert(s, s.destroy_ptr_[p] = NULL, "load: destroy_ptr_ == NULL")
    IN [s1 EXCEPT !.page_destroyed[p] = FALSE,
                  !.destroy_ptr_[p] = p,
                  !.drainer_locks = @ + 1,
                  !.task_kind[p] = kind,
                  !.task_arg[p] = arg]

\* a load coroutine returns: its locals, the drainer lock among them, go
task_exit(s, p) ==
    [s EXCEPT !.task_kind[p] = "none",
              !.task_arg[p] = 0,
              !.page_destroyed[p] = FALSE,
              !.drainer_locks = @ - 1]

\* load_using_block_token, up to the suspension in block_read
load_using_block_token_start(s, p) ==
    LET s1 == task_begin(s, p, "reload", s.block_token_[p])
        s2 == rassert(s1, s1.task_arg[p] # NoToken,
                      "load_using_block_token: block_token.has()")
    IN [s2 EXCEPT !.mallocs = @ + 1]

\* (mutant) a reload that publishes as the cold load does, add_now_loaded_size included
load_using_block_token_resume_add_size(s, p) ==
    IF s.page_destroyed[p]
    THEN task_exit([s EXCEPT !.mallocs = @ - 1], p)
    ELSE LET token == s.task_arg[p]
             s4 == [s EXCEPT !.buf_[p] = block_read(token),
                             !.destroy_ptr_[p] = NULL]
             s5 == add_now_loaded_size(s4, s4.ser_buf_size_[p])
         IN task_exit(pulse_waiters_or_make_evictable(s5, p), p)

\* load_using_block_token, from ASSERT_FINITE_CORO_WAITING on
load_using_block_token_resume(s, p) ==
    IF s.page_destroyed[p]
    THEN task_exit([s EXCEPT !.mallocs = @ - 1], p)
    ELSE LET token == s.task_arg[p]
             s1 == rassert(s, s.block_token_[p] = token,
                           "load_using_block_token: same block token")
             s2 == rassert(s1, s1.buf_[p] = NoBuf,
                           "load_using_block_token: !buf_.has()")
             s3 == rassert(s2, s2.ser_buf_size_[p] = ser_value(token),
                           "load_using_block_token: ser_buf_size_")
             s4 == [s3 EXCEPT !.buf_[p] = block_read(token),
                              !.destroy_ptr_[p] = NULL]
         IN task_exit(pulse_waiters_or_make_evictable(s4, p), p)

\* (mutant) push_front instead of push_back
waiters_push_front(list, a) == <<a>> \o list

waiters_push_back(list, a) == Append(list, a)

waiters_remove(list, a) == SelectSeq(list, LAMBDA x : x # a)

\* (mutant) the evicter is not told that a waiter arrived
add_waiter_stale_bag(s, p, a) ==
    LET s1 == [s EXCEPT !.waiters_[p] = waiters_push_back(@, a)]
    IN IF s1.buf_[p] # NoBuf THEN pulse(s1, a)
       ELSE IF s1.destroy_ptr_[p] # NULL THEN s1
       ELSE IF s1.block_token_[p] # NoToken
            THEN load_using_block_token_start(s1, p)
       ELSE rassert(s1, FALSE, "An unloaded block is not in a loadable state.")

\* (mutant) the "being loaded" branch pulses too
add_waiter_pulse_loading(s, p, a) ==
    LET old_bag == correct_eviction_category(s, p)
        s1 == [s EXCEPT !.waiters_[p] = waiters_push_back(@, a)]
        s2 == change_to_correct_eviction_bag(s1, old_bag, p)
    IN IF s2.buf_[p] # NoBuf THEN pulse(s2, a)
       ELSE IF s2.destroy_ptr_[p] # NULL THEN pulse(s2, a)
       ELSE IF s2.block_token_[p] # NoToken
            THEN load_using_block_token_start(s2, p)
       ELSE rassert(s2, FALSE, "An unloaded block is not in a loadable state.")

\* (mutant) the block token is tested before the buffer
add_waiter_token_first(s, p, a) ==
    LET old_bag == correct_eviction_category(s, p)
        s1 == [s EXCEPT !.waiters_[p] = waiters_push_back(@, a)]
        s2 == change_to_correct_eviction_bag(s1, old_bag, p)
    IN IF s2.destroy_ptr_[p] # NULL THEN s2
       ELSE IF s2.block_token_[p] # NoToken
            THEN load_using_block_token_start(s2, p)
       ELSE IF s2.buf_[p] # NoBuf THEN pulse(s2, a)
       ELSE rassert(s2, FALSE, "An unloaded block is not in a loadable state.")

add_waiter(s, p, a) ==
    LET old_bag == correct_eviction_category(s, p)
        s1 == [s EXCEPT !.waiters_[p] = waiters_push_back(@, a)]
        s2 == change_to_correct_eviction_bag(s1, old_bag, p)
    IN IF s2.buf_[p] # NoBuf THEN pulse(s2, a)
       ELSE IF s2.destroy_ptr_[p] # NULL THEN s2
       ELSE IF s2.block_token_[p] # NoToken
            THEN load_using_block_token_start(s2, p)
       ELSE rassert(s2, FALSE, "An unloaded block is not in a loadable state.")

\* (mutant) the evicter is not told that the waiter left
remove_waiter_stale_bag(s, p, a) ==
    LET s1 == [s EXCEPT !.waiters_[p] = waiters_remove(@, a)]
    IN rassert(s1, s1.snapshot_refcount_[p] > 0,
               "remove_waiter: snapshot_refcount_ > 0")

remove_waiter(s, p, a) ==
    LET old_bag == correct_eviction_category(s, p)
        s1 == [s EXCEPT !.waiters_[p] = waiters_remove(@, a)]
        s2 == change_to_correct_eviction_bag(s1, old_bag, p)
    IN rassert(s2, s2.snapshot_refcount_[p] > 0,
               "remove_waiter: snapshot_refcount_ > 0")

\* (mutant) a destructor that leaves the load's flag alone
page_t_dtor_no_flag(s, p) == s

\* page_t::~page_t
page_t_dtor(s, p) ==
    IF s.destroy_ptr_[p] # NULL
    THEN [s EXCEPT !.page_destroyed[s.destroy_ptr_[p]] = TRUE]
    ELSE s

\* delete this: the destructor body, then the members (buf_, block_token_) go
delete_page(s, p) ==
    LET s1 == page_t_dtor(s, p)
    IN [s1 EXCEPT !.alive[p] = FALSE,
                  !.mallocs = IF s1.buf_[p] # NoBuf THEN @ - 1 ELSE @,
                  !.buf_[p] = NoBuf,
                  !.block_token_[p] = NoToken,
                  !.ser_buf_size_[p] = 0,
                  !.destroy_ptr_[p] = NULL,
                  !.waiters_[p] = <<>>]

add_snapshotter(s, p) ==
    [s EXCEPT !.snapshot_refcount_[p] = @ + 1]

\* (mutant) the last reference goes and the page stays
remove_snapshotter_leak(s, p) ==
    LET s1 == rassert(s, s.snapshot_refcount_[p] > 0,
                      "remove_snapshotter: snapshot_refcount_ > 0")
    IN [s1 EXCEPT !.snapshot_refcount_[p] = @ - 1]

remove_snapshotter(s, p) ==
    LET s1 == rassert(s, s.snapshot_refcount_[p] > 0,
                      "remove_snapshotter: snapshot_refcount_ > 0")
        s2 == [s1 EXCEPT !.snapshot_refcount_[p] = @ - 1]
    IN IF s2.snapshot_refcount_[p] = 0
       THEN LET s3 == rassert(s2, s2.waiters_[p] = <<>>,
                              "remove_snapshotter: waiters_.empty()")
            IN delete_page(remove_page(s3, p), p)
       ELSE s2

num_snapshot_references(s, p) == s.snapshot_refcount_[p]

\* the member initialisers shared by the four constructors
page_t_members(s, p, size, b, token) ==
    [s EXCEPT !.alive[p] = TRUE,
              !.destroy_ptr_[p] = NULL,
              !.ser_buf_size_[p] = size,
              !.buf_[p] = b,
              !.block_token_[p] = token,
              !.snapshot_refcount_[p] = 0,
              !.waiters_[p] = <<>>]

\* load_with_block_id, up to the suspension in on_thread_t / index_read / block_read
load_with_block_id_start(s, p, block_id) ==
    LET s1 == task_begin(s, p, "cold", block_id)
    IN [s1 EXCEPT !.mallocs = @ + 1]

\* load_with_block_id, from ASSERT_FINITE_CORO_WAITING on
load_with_block_id_resume(s, p) ==
    IF s.page_destroyed[p]
    THEN task_exit([s EXCEPT !.mallocs = @ - 1], p)
    ELSE LET token == index_read(s.task_arg[p])
             s1 == rassert(s, s.block_token_[p] = NoToken,
                           "load_with_block_id: !block_token_.has()")
             s2 == rassert(s1, s1.buf_[p] = NoBuf,
                           "load_with_block_id: !buf_.has()")
             s3 == [s2 EXCEPT !.ser_buf_size_[p] = ser_value(token),
                              !.buf_[p] = block_read(token),
                              !.block_token_[p] = token,
                              !.destroy_ptr_[p] = NULL]
             s4 == add_now_loaded_size(s3, s3.ser_buf_size_[p])
         IN task_exit(pulse_waiters_or_make_evictable(s4, p), p)

\* page_t::page_t(block_id_t, page_cache_t *)
page_t_block_id(s, p, block_id) ==
    load_with_block_id_start(
        add_not_yet_loaded(page_t_members(s, p, 0, NoBuf, NoToken), p),
        p, block_id)

\* page_t::page_t(block_size_t, scoped_malloc_t<ser_buffer_t>, page_cache_t *)
page_t_fresh(s, p, b) ==
    LET s1 == page_t_members([s EXCEPT !.mallocs = @ + 1], p, ser_value(0),
                             b, NoToken)
    IN add_to_evictable_unbacked(rassert(s1, s1.buf_[p] # NoBuf, "buf_.has()"), p)

\* page_t::page_t(scoped_malloc_t<ser_buffer_t>, const counted_t<standard_block_token_t> &, ...)
page_t_read_ahead(s, p, b, token) ==
    LET s1 == page_t_members([s EXCEPT !.mallocs = @ + 1], p, ser_value(token),
                             b, token)
    IN add_to_evictable_disk_backed(rassert(s1, s1.buf_[p] # NoBuf, "buf_.has()"), p)

(* ----------------------------- page_acq_t ----------------------------- *)
page_acq_init(s, a, p) ==
    LET s1 == rassert(s, s.acq_page_[a] = NULL, "page_acq_t::init: page_ == NULL")
        s2 == rassert(s1, s1.buf_ready_signal_[a] = 0,
                      "page_acq_t::init: !buf_ready_signal_.is_pulsed()")
    IN add_waiter([s2 EXCEPT !.acq_page_[a] = p], p, a)

\* page_acq_t::~page_acq_t; the object, its signal included, is gone afterwards
page_acq_dtor(s, a) ==
    LET s1 == IF s.acq_page_[a] # NULL
              THEN remove_waiter(s, s.acq_page_[a], a)
              ELSE s
    IN [s1 EXCEPT !.acq_page_[a] = NULL, !.buf_ready_signal_[a] = 0]

get_page_buf_size(s, p) ==
    LET s1 == rassert(s, s.buf_[p] # NoBuf, "get_page_buf_size: buf_.has()")
    IN rassert(s1, s1.ser_buf_size_[p] # 0, "get_page_buf_size: ser_buf_size_ != 0")

get_page_buf(s, p) ==
    rassert(s, s.buf_[p] # NoBuf, "get_page_buf: buf_.has()")

\* (mutant) the token survives a write
reset_block_token_keep(s, p) ==
    rassert(s, s.waiters_[p] # <<>>, "reset_block_token: !waiters_.empty()")

reset_block_token(s, p) ==
    LET s1 == rassert(s, s.waiters_[p] # <<>>, "reset_block_token: !waiters_.empty()")
    IN [s1 EXCEPT !.block_token_[p] = NoToken,
                  !.token_dropped = IF s.block_token_[p] # NoToken THEN p ELSE @]

\* page_acq_t::get_buf_size, after buf_ready_signal_.wait() returned
get_buf_size(s, a) ==
    get_page_buf_size(s, s.acq_page_[a])

\* page_acq_t::get_buf_read, after buf_ready_signal_.wait() returned
get_buf_read(s, a) ==
    get_page_buf(s, s.acq_page_[a])

\* (mutant) a write that leaves the block token in place
get_buf_write_keep_token(s, a, v) ==
    LET p == s.acq_page_[a]
        s1 == get_page_buf(s, p)
    IN [s1 EXCEPT !.buf_[p] = v]

\* page_acq_t::get_buf_write, after buf_ready_signal_.wait() returned, and the
\* caller's store of v through the returned pointer
get_buf_write(s, a, v) ==
    LET p == s.acq_page_[a]
        s1 == get_page_buf(reset_block_token(s, p), p)
    IN [s1 EXCEPT !.buf_[p] = v]

\* (mutant) the eviction drops the block token with the buffer
evict_self_drop_token(s, p) ==
    LET s1 == rassert(s, s.waiters_[p] = <<>>, "evict_self: waiters_.empty()")
        s2 == rassert(s1, s1.block_token_[p] # NoToken, "evict_self: block_token_.has()")
        s3 == rassert(s2, s2.buf_[p] # NoBuf, "evict_self: buf_.has()")
    IN [s3 EXCEPT !.buf_[p] = NoBuf, !.block_token_[p] = NoToken, !.mallocs = @ - 1]

evict_self(s, p) ==
    LET s1 == rassert(s, s.waiters_[p] = <<>>, "evict_self: waiters_.empty()")
        s2 == rassert(s1, s1.block_token_[p] # NoToken, "evict_self: block_token_.has()")
        s3 == rassert(s2, s2.buf_[p] # NoBuf, "evict_self: buf_.has()")
    IN [s3 EXCEPT !.buf_[p] = NoBuf, !.mallocs = @ - 1]

(* -------------------------- load_from_copyee -------------------------- *)
\* load_from_copyee, from ASSERT_FINITE_CORO_WAITING on: the copy, then the
\* destructors of acq, copyee_ptr and lock in that order
load_from_copyee_resume(s, page) ==
    LET copyee == s.task_arg[page]
        s1 == IF ~s.page_destroyed[page]
              THEN LET t1 == rassert(s, s.buf_[copyee] # NoBuf,
                                     "load_from_copyee: copyee->buf_.has()")
                       t2 == [t1 EXCEPT !.mallocs = @ + 1,
                                        !.ser_buf_size_[page] = s.ser_buf_size_[copyee],
                                        !.buf_[page] = s.buf_[copyee],
                                        !.destroy_ptr_[page] = NULL]
                       t3 == add_now_loaded_size(t2, t2.ser_buf_size_[page])
                   IN pulse_waiters_or_make_evictable(t3, page)
              ELSE s
        s2 == page_acq_dtor(s1, TaskAcq(page))
        s3 == remove_snapshotter(s2, copyee)
    IN task_exit(s3, page)

\* (mutant) a copy load that takes no page_ptr_t on the copyee
load_from_copyee_start_no_pin(s, page, copyee) ==
    LET s1 == task_begin(s, page, "copy", copyee)
        s3 == page_acq_init(s1, TaskAcq(page), copyee)
    IN IF s3.buf_ready_signal_[TaskAcq(page)] > 0
       THEN load_from_copyee_resume(s3, page)
       ELSE s3

\* load_from_copyee, up to acq.buf_ready_signal()->wait(), which returns at once
\* when the signal is already pulsed
load_from_copyee_start(s, page, copyee) ==
    LET s1 == task_begin(s, page, "copy", copyee)
        s2 == add_snapshotter(s1, copyee)
        s3 == page_acq_init(s2, TaskAcq(page), copyee)
    IN IF s3.buf_ready_signal_[TaskAcq(page)] > 0
       THEN load_from_copyee_resume(s3, page)
       ELSE s3

\* page_t::page_t(page_t *copyee, page_cache_t *)
page_t_copy(s, p, copyee) ==
    load_from_copyee_start(
        add_not_yet_loaded(page_t_members(s, p, 0, NoBuf, NoToken), p),
        p, copyee)

\* page_t::make_copy; ret is the address operator new returns
make_copy(s, p, ret) == page_t_copy(s, ret, p)

(* ----------------------------- page_ptr_t ----------------------------- *)
\* (mutant) init that forgets add_snapshotter
page_ptr_init_no_count(s, h, p) ==
    [s EXCEPT !.ptr_page_[h] = p]

page_ptr_init(s, h, p) ==
    LET s1 == rassert(s, s.ptr_page_[h] = NULL, "page_ptr_t::init: page_ == NULL")
        s2 == [s1 EXCEPT !.ptr_page_[h] = p]
    IN IF p # NULL THEN add_snapshotter(s2, p) ELSE s2

page_ptr_reset(s, h) ==
    IF s.ptr_page_[h] # NULL
    THEN remove_snapshotter([s EXCEPT !.ptr_page_[h] = NULL], s.ptr_page_[h])
    ELSE s

\* (mutant) operator= that forgets to release what *this owned
page_ptr_assign_leak(s, h, movee_page) ==
    [s EXCEPT !.ptr_page_[h] = movee_page]

\* operator=(page_ptr_t &&movee) where movee owns movee_page: tmp takes it,
\* swap gives it to *this, ~tmp resets what *this owned
page_ptr_assign(s, h, movee_page) ==
    LET old == s.ptr_page_[h]
        s1 == [s EXCEPT !.ptr_page_[h] = movee_page]
    IN IF old # NULL THEN remove_snapshotter(s1, old) ELSE s1

\* page_ptr_t(page_ptr_t &&movee) inside operator=, movee being holder m
page_ptr_move(s, h, m) ==
    page_ptr_assign([s EXCEPT !.ptr_page_[m] = NULL], h, s.ptr_page_[m])

\* (mutant) copies only when more than two references exist
get_page_for_write_gt2(s, h, ret) ==
    LET p == s.ptr_page_[h]
    IN IF num_snapshot_references(s, p) > 2
       THEN page_ptr_assign(add_snapshotter(make_copy(s, p, ret), ret), h, ret)
       ELSE s

\* ret is the address operator new returns if a copy is made
get_page_for_write(s, h, ret) ==
    LET p == s.ptr_page_[h]
        s1 == rassert(s, p # NULL, "get_page_for_write: page_ != NULL")
    IN IF num_snapshot_references(s1, p) > 1
       THEN page_ptr_assign(add_snapshotter(make_copy(s1, p, ret), ret), h, ret)
       ELSE s1

(* ------------------------------ actions ------------------------------- *)
\* the address operator new returns: a slot no page and no load coroutine uses
FreeSlots(s) == {p \in Pages : ~s.alive[p] /\ s.task_kind[p] = "none"}
NewSlot(s) == CHOOSE p \in FreeSlots(s) : \A q \in FreeSlots(s) : p <= q

\* the acquisitions attached to p after the step, by time of attach
NextAttachOrder(s, p) ==
    LET kept == SelectSeq(attach_order[p], LAMBDA a : s.acq_page_[a] = p)
        new == {a \in Acqs : s.acq_page_[a] = p /\ acq_page_[a] # p}
    IN IF ~s.alive[p] THEN <<>>
       ELSE IF new = {} THEN kept
       ELSE Append(kept, CHOOSE a \in new : TRUE)

\* the step's heap s becomes the state; evicted is the page evict_self ran on
Commit(s, evicted) ==
    /\ alive' = s.alive
    /\ buf_' = s.buf_
    /\ block_token_' = s.block_token_
    /\ ser_buf_size_' = s.ser_buf_size_
    /\ destroy_ptr_' = s.destroy_ptr_
    /\ snapshot_refcount_' = s.snapshot_refcount_
    /\ waiters_' = s.waiters_
    /\ bag' = s.bag
    /\ in_memory_size' = s.in_memory_size
    /\ task_kind' = s.task_kind
    /\ task_arg' = s.task_arg
    /\ page_destroyed' = s.page_destroyed
    /\ acq_page_' = s.acq_page_
    /\ buf_ready_signal_' = s.buf_ready_signal_
    /\ ptr_page_' = s.ptr_page_
    /\ drainer_locks' = s.drainer_locks
    /\ mallocs' = s.mallocs
    /\ crashed' = s.crashed
    /\ pulse_order' = IF Len(s.pulse_order) >= 2 THEN s.pulse_order ELSE <<>>
    /\ token_dropped' = s.token_dropped
    /\ attach_order' = [p \in Pages |-> NextAttachOrder(s, p)]
    /\ pre_evict' = [p \in Pages |->
                        IF p = evicted THEN buf_[p]
                        ELSE IF s.buf_[p] # NoBuf \/ ~s.alive[p] THEN NoBuf
                        ELSE pre_evict[p]]

\* what the consumers know: h's entries become w, c, v
Holder(s, h, w, c, v) ==
    /\ writer' = [writer EXCEPT ![h] = w]
    /\ cow_from' = [x \in Holders |->
                       LET q == IF x = h THEN c ELSE cow_from[x]
                       IN IF q # NULL /\ ~s.alive[q] THEN NULL ELSE q]
    /\ view' = [view EXCEPT ![h] = v]

HolderSame(s, h) == Holder(s, h, writer[h], cow_from[h], view[h])

Running == crashed = ""

\* unbound handles are interchangeable: a new reference goes to the first of them
FirstUnbound(h) ==
    /\ ptr_page_[h] = NULL
    /\ \A x \in Holders : ptr_page_[x] = NULL => h <= x

\* page_ptr_t(new page_t(block_id, page_cache), page_cache)
NewPageBlockId(h, b) ==
    /\ Running /\ FirstUnbound(h) /\ FreeSlots(Cur) # {}
    /\ LET p == NewSlot(Cur)
           s == page_ptr_init(page_t_block_id(Cur, p, b), h, p)
       IN Commit(s, NULL) /\ Holder(s, h, FALSE, NULL, DiskContent(b))

\* page_ptr_t(new page_t(block_size, buf, page_cache), page_cache), buf holding v
NewPageFresh(h, v) ==
    /\ Running /\ FirstUnbound(h) /\ FreeSlots(Cur) # {}
    /\ LET p == NewSlot(Cur)
           s == page_ptr_init(page_t_fresh(Cur, p, v), h, p)
       IN Commit(s, NULL) /\ Holder(s, h, FALSE, NULL, v)

\* page_ptr_t(new page_t(buf, token, page_cache), page_cache), buf read ahead from b
NewPageReadAhead(h, b) ==
    /\ Running /\ FirstUnbound(h) /\ FreeSlots(Cur) # {}
    /\ LET p == NewSlot(Cur)
           token == index_read(b)
           s == page_ptr_init(page_t_read_ahead(Cur, p, block_read(token), token), h, p)
       IN Commit(s, NULL) /\ Holder(s, h, FALSE, NULL, DiskContent(b))

\* a snapshot: h2.init(h1.get_page_for_read(), page_cache); never taken of a
\* page a writer holds
Snapshot(h1, h2) ==
    /\ Running /\ ptr_page_[h1] # NULL /\ FirstUnbound(h2) /\ ~writer[h1]
    /\ LET s == page_ptr_init(Cur, h2, ptr_page_[h1])
       IN Commit(s, NULL) /\ Holder(s, h2, FALSE, NULL, view[h1])

\* h2 = std::move(h1)
Move(h1, h2) ==
    /\ Running /\ h1 # h2 /\ ptr_page_[h1] # NULL
    /\ ptr_page_[h2] # NULL \/ FirstUnbound(h2)
    /\ acq_page_[h1] = NULL /\ acq_page_[h2] = NULL
    /\ LET s == page_ptr_move(Cur, h2, h1)
       IN /\ Commit(s, NULL)
          /\ writer' = [writer EXCEPT ![h2] = writer[h1], ![h1] = FALSE]
          /\ cow_from' = [x \in Holders |->
                             LET q == IF x = h2 THEN cow_from[h1]
                                      ELSE IF x = h1 THEN NULL ELSE cow_from[x]
                             IN IF q # NULL /\ ~s.alive[q] THEN NULL ELSE q]
          /\ view' = [view EXCEPT ![h2] = view[h1], ![h1] = NoBuf]

\* h.reset(), or ~page_ptr_t
Reset(h) ==
    /\ Running /\ ptr_page_[h] # NULL /\ acq_page_[h] = NULL
    /\ LET s == page_ptr_reset(Cur, h)
       IN Commit(s, NULL) /\ Holder(s, h, FALSE, NULL, NoBuf)

\* a read acquisition: acq.init(h.get_page_for_read(), page_cache)
Attach(h) ==
    /\ Running /\ ptr_page_[h] # NULL /\ acq_page_[h] = NULL
    /\ LET s == page_acq_init(Cur, h, ptr_page_[h])
       IN Commit(s, NULL) /\ HolderSame(s, h)

\* a write acquisition: acq.init(h.get_page_for_write(page_cache), page_cache)
AttachForWrite(h) ==
    /\ Running /\ ptr_page_[h] # NULL /\ acq_page_[h] = NULL
    /\ num_snapshot_references(Cur, ptr_page_[h]) > 1 => FreeSlots(Cur) # {}
    /\ LET ret == IF FreeSlots(Cur) # {} THEN NewSlot(Cur) ELSE NULL
           s1 == get_page_for_write(Cur, h, ret)
           s == page_acq_init(s1, h, s1.ptr_page_[h])
       IN Commit(s, NULL)
          /\ Holder(s, h, TRUE,
                    IF s.ptr_page_[h] # ptr_page_[h] THEN ptr_page_[h] ELSE NULL,
                    view[h])

\* ~page_acq_t
Detach(h) ==
    /\ Running /\ acq_page_[h] # NULL
    /\ LET s == page_acq_dtor(Cur, h)
       IN Commit(s, NULL) /\ Holder(s, h, FALSE, NULL, view[h])

\* acq.get_buf_read(), after its wait on the signal
Read(h) ==
    /\ Running /\ acq_page_[h] # NULL /\ buf_ready_signal_[h] > 0
    /\ LET s == get_buf_read(Cur, h)
       IN Commit(s, NULL) /\ HolderSame(s, h)

\* acq.get_buf_size(), after its wait on the signal
GetBufSize(h) ==
    /\ Running /\ acq_page_[h] # NULL /\ buf_ready_signal_[h] > 0
    /\ LET s == get_buf_size(Cur, h)
       IN Commit(s, NULL) /\ HolderSame(s, h)

\* (mutant) a write that does not wait for the ready signal
WriteNoWait(h, v) ==
    /\ Running /\ acq_page_[h] # NULL /\ writer[h]
    /\ LET s == get_buf_write(Cur, h, v)
       IN Commit(s, NULL) /\ Holder(s, h, writer[h], cow_from[h], v)

\* acq.get_buf_write() and the store of v through the returned pointer
Write(h, v) ==
    /\ Running /\ acq_page_[h] # NULL /\ buf_ready_signal_[h] > 0 /\ writer[h]
    /\ LET s == get_buf_write(Cur, h, v)
       IN Commit(s, NULL) /\ Holder(s, h, writer[h], cow_from[h], v)

\* (mutant) the evicter takes a page out of the unevictable bag as well
EvictUnevictable(p) ==
    /\ Running /\ bag[p] \in {"evictable_disk_backed", "unevictable"}
    /\ buf_[p] # NoBuf /\ block_token_[p] # NoToken
    /\ LET s == evict_self(bag_add(bag_remove(Cur, p, bag[p]), p, "evicted"), p)
       IN Commit(s, p) /\ UNCHANGED <<writer, cow_from, view>>

\* the evicter takes a page out of its evictable disk-backed bag
Evict(p) ==
    /\ Running /\ bag[p] = "evictable_disk_backed"
    /\ LET s == evict_self(bag_add(bag_remove(Cur, p, "evictable_disk_backed"),
                                   p, "evicted"), p)
       IN Commit(s, p) /\ UNCHANGED <<writer, cow_from, view>>

\* the coroutine of a load resumes after its last suspension
TaskGhosts(s) ==
    /\ cow_from' = [x \in Holders |->
                       IF cow_from[x] # NULL /\ ~s.alive[cow_from[x]]
                       THEN NULL ELSE cow_from[x]]
    /\ UNCHANGED <<writer, view>>

LoadWithBlockIdResume(p) ==
    /\ Running /\ task_kind[p] = "cold"
    /\ LET s == load_with_block_id_resume(Cur, p)
       IN Commit(s, NULL) /\ TaskGhosts(s)

LoadUsingBlockTokenResume(p) ==
    /\ Running /\ task_kind[p] = "reload"
    /\ LET s == load_using_block_token_resume(Cur, p)
       IN Commit(s, NULL) /\ TaskGhosts(s)

LoadFromCopyeeResume(p) ==
    /\ Running /\ task_kind[p] = "copy" /\ buf_ready_signal_[TaskAcq(p)] > 0
    /\ LET s == load_from_copyee_resume(Cur, p)
       IN Commit(s, NULL) /\ TaskGhosts(s)

Init ==
    /\ alive = [p \in Pages |-> FALSE]
    /\ buf_ = [p \in Pages |-> NoBuf]
    /\ block_token_ = [p \in Pages |-> NoToken]
    /\ ser_buf_size_ = [p \in Pages |-> 0]
    /\ destroy_ptr_ = [p \in Pages |-> NULL]
    /\ snapshot_refcount_ = [p \in Pages |-> 0]
    /\ waiters_ = [p \in Pages |-> <<>>]
    /\ bag = [p \in Pages |-> "none"]
    /\ in_memory_size = 0
    /\ task_kind = [p \in Pages |-> "none"]
    /\ task_arg = [p \in Pages |-> 0]
    /\ page_destroyed = [p \in Pages |-> FALSE]
    /\ acq_page_ = [a \in Acqs |-> NULL]
    /\ buf_ready_signal_ = [a \in Acqs |-> 0]
    /\ ptr_page_ = [h \in Holders |-> NULL]
    /\ drainer_locks = 0
    /\ mallocs = 0
    /\ crashed = ""
    /\ pulse_order = <<>>
    /\ token_dropped = NULL
    /\ attach_order = [p \in Pages |-> <<>>]
    /\ pre_evict = [p \in Pages |-> NoBuf]
    /\ writer = [h \in Holders |-> FALSE]
    /\ cow_from = [h \in Holders |-> NULL]
    /\ view = [h \in Holders |-> NoBuf]

Next ==
    \/ \E h \in Holders, b \in Blocks : NewPageBlockId(h, b)
    \/ \E h \in Holders, v \in Values : NewPageFresh(h, v)
    \/ \E h \in Holders, b \in Blocks : NewPageReadAhead(h, b)
    \/ \E h1, h2 \in Holders : Snapshot(h1, h2)
    \/ \E h1, h2 \in Holders : Move(h1, h2)
    \/ \E h \in Holders : Reset(h)
    \/ \E h \in Holders : Attach(h)
    \/ \E h \in Holders : AttachForWrite(h)
    \/ \E h \in Holders : Detach(h)
    \/ \E h \in Holders : Read(h)
    \/ \E h \in Holders : GetBufSize(h)
    \/ \E h \in Holders, v \in Values : Write(h, v)
    \/ \E p \in Pages : Evict(p)
    \/ \E p \in Pages : LoadWithBlockIdResume(p)
    \/ \E p \in Pages : LoadUsingBlockTokenResume(p)
    \/ \E p \in Pages : LoadFromCopyeeResume(p)

Spec == Init /\ [][Next]_vars

\* every serializer read returns and every load coroutine that can run is run
\* a load coroutine can run: its read has returned, or, for a copy, its wait on
\* the copyee's signal is over
LoadRunnable(p) ==
    /\ Running /\ task_kind[p] # "none"
    /\ task_kind[p] = "copy" => buf_ready_signal_[TaskAcq(p)] > 0

\* the step of Next that runs it: only a resume ends a load that was in flight
LoadResume(p) ==
    /\ LoadRunnable(p)
    /\ task_kind' = [task_kind EXCEPT ![p] = "none"]

Fairness == \A p \in Pages : WF_task_kind(LoadResume(p))

FairSpec == Spec /\ Fairness

(* ------------------------------- claims ------------------------------- *)
\* no rassert and no crash() is ever hit
NoCrash == crashed = ""

\* C1. Copy-on-write: every holder of a page sees, whenever the buffer is
\* present, the contents its snapshot stands for; they change only by the
\* holder's own writes.  A writer that got its page from get_page_for_write on
\* a page with other references therefore never changes what the holders of
\* the original page see, whether the original was loaded, evicted or still
\* loading when the copy was made.
CowCorrect ==
    \A h \in Holders :
        (ptr_page_[h] # NULL /\ buf_[ptr_page_[h]] # NoBuf)
            => buf_[ptr_page_[h]] = view[h]

\* a writer has stored into its copy while the original's holder still sees
\* the original contents
CowWitness ==
    \E h, h2 \in Holders :
        /\ h # h2 /\ writer[h]
        /\ cow_from[h] # NULL /\ cow_from[h] = ptr_page_[h2]
        /\ ptr_page_[h] # ptr_page_[h2]
        /\ buf_[ptr_page_[h]] # NoBuf /\ buf_[ptr_page_[h2]] # NoBuf
        /\ buf_[ptr_page_[h]] # buf_[ptr_page_[h2]]
        /\ buf_[ptr_page_[h2]] = view[h2]

\* C2. get_page_for_write (the first half of a write acquisition): with one
\* reference it returns the current page, creates no page and changes no
\* refcount; with more it creates a page, binds the handle to it, and the old
\* page loses this handle's reference only (the copy's load task may hold its
\* own temporary reference on it).
ForWriteStep(h) == ~writer[h] /\ writer'[h]

ForWriteRebinds ==
    [][\A h \in Holders : ForWriteStep(h) =>
        LET p == ptr_page_[h]
            q == ptr_page_'[h]
        IN IF snapshot_refcount_[p] = 1
           THEN /\ q = p
                /\ alive' = alive
                /\ snapshot_refcount_' = snapshot_refcount_
           ELSE /\ q # p /\ q # NULL
                /\ ~alive[q] /\ alive'[q]
                /\ snapshot_refcount_'[q] = 1
                /\ alive'[p]
                /\ \A x \in Holders \ {h} : ptr_page_'[x] = ptr_page_[x]
                /\ snapshot_refcount_'[p] =
                       snapshot_refcount_[p] - 1
                       + (IF task_kind'[q] = "copy" THEN 1 ELSE 0)
                /\ acq_page_'[h] = q]_vars

\* a handle was rebound to a copy and another handle still owns the original
ForWriteWitness ==
    \E h, h2 \in Holders :
        /\ h # h2 /\ cow_from[h] # NULL /\ alive[cow_from[h]]
        /\ ptr_page_[h] # cow_from[h] /\ ptr_page_[h2] = cow_from[h]
        /\ snapshot_refcount_[ptr_page_[h]] = 1

\* C3. A live page's snapshot_refcount_ is the number of handles bound to it,
\* the copyee_ptr of every running load_from_copyee included; every page a
\* handle reaches is alive with a count of at least one.
CopyeePtrs(p) == {q \in Pages : task_kind[q] = "copy" /\ task_arg[q] = p}

RefcountCounts ==
    /\ \A p \in Pages : alive[p] =>
           snapshot_refcount_[p] =
               Cardinality({h \in Holders : ptr_page_[h] = p})
               + Cardinality(CopyeePtrs(p))
    /\ \A h \in Holders : ptr_page_[h] # NULL =>
           alive[ptr_page_[h]] /\ snapshot_refcount_[ptr_page_[h]] >= 1

\* a page referenced by a handle and by the temporary handle of a copy load
RefcountWitness ==
    \E p \in Pages, h \in Holders :
        /\ ptr_page_[h] = p /\ CopyeePtrs(p) # {}
        /\ snapshot_refcount_[p] >= 2

\* C4. A page is destroyed exactly when its last reference goes: a live page
\* has a count of at least one, a page leaves with a count of zero and out of
\* every bag, and the waiters_.empty() assertion of remove_snapshotter holds
\* whenever the count reaches zero.
RefcountLiveness ==
    /\ [](/\ \A p \in Pages : alive[p] => snapshot_refcount_[p] >= 1
          /\ \A p \in Pages : ~alive[p] => bag[p] = "none" /\ waiters_[p] = <<>>
          /\ crashed \notin {"remove_snapshotter: waiters_.empty()",
                              "remove_snapshotter: snapshot_refcount_ > 0",
                              "bag has_page"})
    /\ [][\A p \in Pages : (alive[p] /\ ~alive'[p]) =>
             /\ snapshot_refcount_'[p] = 0
             /\ \A h \in Holders : ptr_page_'[h] # p
             /\ CopyeePtrs(p)' = {}]_vars

\* a copy was destroyed at count zero while its load still pins the copyee
RefcountLivenessWitness ==
    \E p \in Pages :
        /\ ~alive[p] /\ task_kind[p] = "copy" /\ page_destroyed[p]
        /\ snapshot_refcount_[p] = 0 /\ bag[p] = "none"
        /\ alive[task_arg[p]]

\* C5 as stated: an acquisition whose lifetime ends was pulsed exactly once.
SinglePulseExactlyOnce ==
    [][\A a \in Acqs : (acq_page_[a] # NULL /\ acq_page_'[a] = NULL) =>
            buf_ready_signal_[a] = 1]_vars

\* C5, amended. A ready signal is pulsed at most once in the acquisition's
\* lifetime; it has been pulsed exactly once whenever the acquisition is
\* attached to a page whose buffer is present.
SinglePulse ==
    \A a \in Acqs :
        /\ buf_ready_signal_[a] <= 1
        /\ (acq_page_[a] # NULL /\ buf_[acq_page_[a]] # NoBuf)
               => buf_ready_signal_[a] = 1

\* two acquisitions on one loaded page, each pulsed once
SinglePulseWitness ==
    \E a, b \in Acqs :
        /\ a # b /\ acq_page_[a] # NULL /\ acq_page_[a] = acq_page_[b]
        /\ buf_[acq_page_[a]] # NoBuf
        /\ buf_ready_signal_[a] = 1 /\ buf_ready_signal_[b] = 1

\* C6. Every live page is in the bag correct_eviction_category gives for its
\* buffer, block token, waiters and load flag; a destroyed page is in none.
BagInvariant ==
    \A p \in Pages :
        IF alive[p] THEN bag[p] = correct_eviction_category(Cur, p)
        ELSE bag[p] = "none"

\* an evicted page beside a loaded page held unevictable by a waiter
BagWitness ==
    \E p, q \in Pages :
        /\ alive[p] /\ bag[p] = "evicted"
        /\ alive[q] /\ bag[q] = "unevictable" /\ buf_[q] # NoBuf
           /\ waiters_[q] # <<>>

\* C7. A page destroyed during its load leaves the flag of the load set; the
\* load then returns without changing any field of that page, without a pulse
\* and without an evicter call for it, and a buffer it allocated is freed.
PageFields(p) ==
    <<alive[p], buf_[p], block_token_[p], ser_buf_size_[p], destroy_ptr_[p],
      snapshot_refcount_[p], waiters_[p], bag[p]>>

LoadCancellationSafe ==
    /\ [](\A p \in Pages :
             (~alive[p] /\ task_kind[p] # "none") => page_destroyed[p])
    /\ [][\A p \in Pages :
             (~alive[p] /\ task_kind[p] # "none" /\ task_kind'[p] = "none") =>
                 /\ PageFields(p)' = PageFields(p)
                 /\ \A a \in Acqs : buf_ready_signal_'[a] <= buf_ready_signal_[a]
                 /\ pulse_order' = <<>>
                 /\ drainer_locks' = drainer_locks - 1
                 /\ task_kind[p] \in {"cold", "reload"} =>
                        /\ mallocs' = mallocs - 1
                        /\ in_memory_size' = in_memory_size
                        /\ bag' = bag]_vars

\* a page was destroyed under a serializer read that has not returned yet
LoadCancellationWitness ==
    \E p \in Pages :
        /\ ~alive[p] /\ task_kind[p] \in {"cold", "reload"}
        /\ page_destroyed[p] /\ buf_[p] = NoBuf /\ mallocs >= 1

\* C8. At a load completion all acquisitions attached to the page are pulsed,
\* in the order in which they were attached, in that one step.
LoadCompletes(p) ==
    alive[p] /\ destroy_ptr_[p] # NULL /\ alive'[p] /\ destroy_ptr_'[p] = NULL

WaiterOrdering ==
    [][\A p \in Pages : LoadCompletes(p) =>
          /\ \A i \in 1..Len(attach_order[p]) :
                 /\ acq_page_'[attach_order[p][i]] = p
                 /\ buf_ready_signal_[attach_order[p][i]] = 0
                 /\ buf_ready_signal_'[attach_order[p][i]] = 1
          /\ pulse_order' = IF Len(attach_order[p]) >= 2
                            THEN attach_order[p] ELSE <<>>]_vars

\* a completion has just pulsed two waiters
WaiterOrderingWitness ==
    /\ Len(pulse_order) >= 2
    /\ \E p \in Pages : alive[p] /\ buf_[p] # NoBuf /\ pulse_order = waiters_[p]

\* C9. An acquisition attached to a page with its buffer present is pulsed in
\* the attach step and no load is dispatched; one attached while a load is in
\* flight is not pulsed in that step and no second load is dispatched.
Attaches(a, q) == acq_page_[a] = NULL /\ acq_page_'[a] = q /\ alive[q]

AttachPulse ==
    [][\A a \in Acqs, q \in Pages : Attaches(a, q) =>
          /\ buf_[q] # NoBuf =>
                 /\ buf_ready_signal_'[a] = 1
                 /\ task_kind'[q] = "none" /\ destroy_ptr_'[q] = NULL
                 /\ buf_'[q] = buf_[q]
          /\ destroy_ptr_[q] # NULL =>
                 /\ buf_ready_signal_'[a] = 0
                 /\ task_kind'[q] = task_kind[q]
                 /\ destroy_ptr_'[q] = destroy_ptr_[q]]_vars

\* one acquisition pulsed on a disk-backed loaded page, another waiting for a load
AttachPulseWitness ==
    \E a, b \in Acqs :
        /\ acq_page_[a] # NULL /\ buf_ready_signal_[a] = 1
        /\ block_token_[acq_page_[a]] # NoToken /\ task_kind[acq_page_[a]] = "none"
        /\ acq_page_[b] # NULL /\ buf_ready_signal_[b] = 0
        /\ task_kind[acq_page_[b]] # "none"

\* C10. Attaching to an evicted page dispatches a reload and does not pulse;
\* when the reload completes the buffer holds what evict_self dropped, the
\* block token is the same, and with an acquisition attached the page is
\* loaded, in the unevictable bag, and its waiters are pulsed.
Evicted(q) ==
    alive[q] /\ buf_[q] = NoBuf /\ destroy_ptr_[q] = NULL

ReloadIdempotent ==
    [][/\ \A a \in Acqs, q \in Pages : (Attaches(a, q) /\ Evicted(q)) =>
              /\ task_kind'[q] = "reload"
              /\ buf_ready_signal_'[a] = 0
              /\ buf_'[q] = NoBuf
              /\ block_token_[q] # NoToken /\ block_token_'[q] = block_token_[q]
       /\ \A p \in Pages :
              (alive[p] /\ task_kind[p] = "reload" /\ task_kind'[p] = "none") =>
                  /\ alive'[p]
                  /\ buf_'[p] # NoBuf /\ buf_'[p] = pre_evict[p]
                  /\ block_token_[p] # NoToken /\ block_token_'[p] = block_token_[p]
                  /\ waiters_'[p] # <<>> =>
                         /\ bag'[p] = "unevictable"
                         /\ \A i \in 1..Len(waiters_'[p]) :
                                buf_ready_signal_'[waiters_'[p][i]] = 1]_vars

\* an evicted page is being reloaded for an acquisition that was not pulsed
ReloadWitness ==
    \E p \in Pages, a \in Acqs :
        /\ alive[p] /\ task_kind[p] = "reload" /\ pre_evict[p] # NoBuf
        /\ acq_page_[a] = p /\ buf_ready_signal_[a] = 0
        /\ bag[p] = "unevictable" /\ block_token_[p] # NoToken

\* C11. Loadability: a live page with no buffer and no load in flight has a
\* block token, and add_waiter never reaches its crash() branch.
Loadable ==
    /\ \A p \in Pages :
           (alive[p] /\ buf_[p] = NoBuf /\ destroy_ptr_[p] = NULL)
               => block_token_[p] # NoToken
    /\ crashed # "An unloaded block is not in a loadable state."

\* an evicted page that lives on its token, beside a page whose token a write dropped
LoadableWitness ==
    \E p, q \in Pages :
        /\ alive[p] /\ buf_[p] = NoBuf /\ destroy_ptr_[p] = NULL
           /\ block_token_[p] # NoToken
        /\ alive[q] /\ buf_[q] # NoBuf /\ block_token_[q] = NoToken
           /\ \E h \in Holders : writer[h] /\ acq_page_[h] = q

\* C12. evict_self is applied only to a page with no waiters, a block token
\* and a buffer; the page then is alive, without buffer, with the same token;
\* a page with waiters is in the unevictable bag.
EvictStep(p) ==
    alive[p] /\ buf_[p] # NoBuf /\ alive'[p] /\ buf_'[p] = NoBuf

EvictSafe ==
    /\ [](/\ \A p \in Pages : waiters_[p] # <<>> => bag[p] = "unevictable"
          /\ crashed \notin {"evict_self: waiters_.empty()",
                              "evict_self: block_token_.has()",
                              "evict_self: buf_.has()"})
    /\ [][\A p \in Pages : EvictStep(p) =>
             /\ waiters_[p] = <<>> /\ waiters_'[p] = <<>>
             /\ bag[p] = "evictable_disk_backed" /\ bag'[p] = "evicted"
             /\ block_token_[p] # NoToken /\ block_token_'[p] = block_token_[p]
             /\ destroy_ptr_'[p] = NULL
             /\ snapshot_refcount_'[p] = snapshot_refcount_[p]
             /\ \A h \in Holders : ptr_page_'[h] = ptr_page_[h]]_vars

\* a page just evicted: still referenced, no waiters, its token kept
EvictWitness ==
    \E p \in Pages, h \in Holders :
        /\ ptr_page_[h] = p /\ alive[p] /\ bag[p] = "evicted"
        /\ pre_evict[p] # NoBuf /\ buf_[p] = NoBuf /\ waiters_[p] = <<>>
        /\ block_token_[p] # NoToken /\ task_kind[p] = "none"

\* C13. When a load publishes, the page is in the unevictable bag; with
\* waiters all of them are pulsed and the page stays unevictable, without
\* waiters nothing is pulsed and the page goes to the evictable bag its token
\* decides; a loaded page whose last waiter detaches becomes evictable too.
EvictableBagOf(p) ==
    IF block_token_[p] # NoToken THEN "evictable_disk_backed"
    ELSE "evictable_unbacked"

PublishStep ==
    /\ [](crashed # "pulse_waiters_or_make_evictable: in unevictable bag")
    /\ [][\A p \in Pages :
             /\ LoadCompletes(p) =>
                    /\ bag[p] = "unevictable"
                    /\ buf_'[p] # NoBuf
                    /\ waiters_'[p] = waiters_[p]
                    /\ waiters_[p] # <<>> =>
                           /\ bag'[p] = "unevictable"
                           /\ \A i \in 1..Len(waiters_[p]) :
                                  buf_ready_signal_'[waiters_[p][i]] = 1
                    /\ waiters_[p] = <<>> =>
                           /\ bag'[p] = EvictableBagOf(p)'
                           /\ \A a \in Acqs :
                                  buf_ready_signal_'[a] <= buf_ready_signal_[a]
             /\ (waiters_[p] # <<>> /\ waiters_'[p] = <<>> /\ alive'[p]
                    /\ buf_[p] # NoBuf) =>
                    /\ buf_'[p] = buf_[p]
                    /\ bag'[p] = EvictableBagOf(p)']_vars

\* one loaded page left evictable and unbacked, another kept unevictable by a
\* waiter that was pulsed
PublishWitness ==
    \E p, q \in Pages, a \in Acqs :
        /\ alive[p] /\ buf_[p] # NoBuf /\ waiters_[p] = <<>>
           /\ block_token_[p] = NoToken /\ bag[p] = "evictable_unbacked"
        /\ alive[q] /\ buf_[q] # NoBuf /\ acq_page_[a] = q
           /\ buf_ready_signal_[a] = 1 /\ bag[q] = "unevictable"
           /\ block_token_[q] # NoToken

\* C14. While a copy load is in flight its copyee is alive, holds the load's
\* acquisition in its waiter list and is in the unevictable bag, whatever
\* happened to the other references and to the copy; the load detaches the
\* acquisition before it releases its page_ptr_t.
CopyeePinned ==
    /\ \A q \in Pages : task_kind[q] = "copy" =>
           /\ alive[task_arg[q]]
           /\ snapshot_refcount_[task_arg[q]] >= 1
           /\ acq_page_[TaskAcq(q)] = task_arg[q]
           /\ \E i \in 1..Len(waiters_[task_arg[q]]) :
                  waiters_[task_arg[q]][i] = TaskAcq(q)
           /\ bag[task_arg[q]] = "unevictable"
           /\ (buf_ready_signal_[TaskAcq(q)] = 1) => buf_[task_arg[q]] # NoBuf
    /\ \A q \in Pages : task_kind[q] # "copy" => acq_page_[TaskAcq(q)] = NULL
    /\ crashed \notin {"remove_snapshotter: waiters_.empty()",
                        "load_from_copyee: copyee->buf_.has()"}

\* the copy is destroyed, every handle on the copyee is dropped, and the load
\* alone keeps the copyee
CopyeePinnedWitness ==
    \E q \in Pages :
        /\ task_kind[q] = "copy" /\ ~alive[q] /\ page_destroyed[q]
        /\ alive[task_arg[q]] /\ snapshot_refcount_[task_arg[q]] = 1
        /\ \A h \in Holders : ptr_page_[h] = NULL

\* C15. While destroy_ptr_ of a page is set, its buffer and block token are
\* changed only by the publish step of the load that owns the flag; a load
\* starts with the flag clear and sets it in the step that starts it, so one
\* load at most is in flight per page; a reload publishes into a page without
\* buffer that holds the token the load read.
LoadExclusive ==
    /\ [](/\ \A p \in Pages : alive[p] =>
                 /\ (destroy_ptr_[p] # NULL) <=> (task_kind[p] # "none")
                 /\ destroy_ptr_[p] \in {NULL, p}
                 /\ destroy_ptr_[p] # NULL => buf_[p] = NoBuf
                 /\ task_kind[p] = "reload" => block_token_[p] = task_arg[p]
                 /\ task_kind[p] \in {"cold", "copy"} => block_token_[p] = NoToken
          /\ crashed \notin {"load: destroy_ptr_ == NULL",
                              "load_using_block_token: same block token",
                              "load_using_block_token: !buf_.has()",
                              "load_with_block_id: !block_token_.has()",
                              "load_with_block_id: !buf_.has()"})
    /\ [][\A p \in Pages :
             (alive[p] /\ destroy_ptr_[p] # NULL /\ alive'[p]
                /\ (buf_'[p] # buf_[p] \/ block_token_'[p] # block_token_[p])) =>
                 /\ destroy_ptr_'[p] = NULL
                 /\ task_kind'[p] = "none"
                 /\ buf_'[p] # NoBuf
                 /\ task_kind[p] = "reload" => block_token_'[p] = block_token_[p]]_vars

\* a writer is attached, unpulsed, to a page that is being reloaded
LoadExclusiveWitness ==
    \E p \in Pages, h \in Holders :
        /\ alive[p] /\ task_kind[p] = "reload" /\ destroy_ptr_[p] = p
        /\ acq_page_[h] = p /\ writer[h] /\ buf_ready_signal_[h] = 0
        /\ block_token_[p] = task_arg[p] /\ buf_[p] = NoBuf

\* C16. Every load that has started and not returned holds one drainer lock,
\* its page destroyed or not; the lock is taken in the step that starts the
\* load and released in the step that ends it.
LoadsInFlight == {p \in Pages : task_kind[p] # "none"}

DrainerGuard ==
    /\ [](drainer_locks = Cardinality(LoadsInFlight))
    /\ [][\A p \in Pages :
             /\ (task_kind[p] = "none" /\ task_kind'[p] # "none") =>
                    drainer_locks' >= 1
             /\ (task_kind[p] # "none" /\ task_kind'[p] = "none"
                    /\ Cardinality(LoadsInFlight') = Cardinality(LoadsInFlight) - 1) =>
                    drainer_locks' = drainer_locks - 1]_vars

\* two loads hold their locks, one of them for a page that is gone
DrainerGuardWitness ==
    \E p, q \in Pages :
        /\ p # q /\ task_kind[p] # "none" /\ task_kind[q] # "none"
        /\ ~alive[q] /\ page_destroyed[q] /\ drainer_locks = 2

\* C17 as stated: the publish step of a reload informs the evicter of the
\* newly loaded size, as the cold load's does.
ReloadCompletes(p) ==
    alive[p] /\ task_kind[p] = "reload" /\ task_kind'[p] = "none"

ReloadAddsLoadedSize ==
    [][\A p \in Pages : ReloadCompletes(p) =>
          in_memory_size' = in_memory_size + ser_buf_size_'[p]]_vars

\* C17, amended. A reload that was not cancelled publishes in one step: the
\* buffer is installed, destroy_ptr_ is cleared, the token and ser_buf_size_
\* stay, and pulse-or-make-evictable runs; add_now_loaded_size is not called,
\* the size having been counted when add_waiter moved the page from the
\* evicted bag to the unevictable one, and the evicter's in-memory size is the
\* sum of ser_buf_size_ over the pages of its three in-memory bags throughout.
RECURSIVE SumSizes(_)
SumSizes(S) ==
    IF S = {} THEN 0
    ELSE LET p == CHOOSE x \in S : TRUE
         IN ser_buf_size_[p] + SumSizes(S \ {p})

InMemoryPages ==
    {p \in Pages : bag[p] \in {"unevictable", "evictable_disk_backed",
                               "evictable_unbacked"}}

ReloadPublish ==
    /\ [](in_memory_size = SumSizes(InMemoryPages))
    /\ [][\A p \in Pages : ReloadCompletes(p) =>
             /\ alive'[p] /\ destroy_ptr_'[p] = NULL
             /\ buf_[p] = NoBuf /\ buf_'[p] = block_read(block_token_[p])
             /\ block_token_'[p] = block_token_[p]
             /\ ser_buf_size_'[p] = ser_buf_size_[p]
             /\ in_memory_size' = in_memory_size
             /\ IF waiters_[p] = <<>>
                THEN bag'[p] = "evictable_disk_backed"
                ELSE /\ bag'[p] = "unevictable"
                     /\ \A i \in 1..Len(waiters_[p]) :
                            buf_ready_signal_'[waiters_[p][i]] = 1]_vars

\* a reload in flight whose page, still without buffer, is the only page counted
ReloadPublishWitness ==
    \E p \in Pages :
        /\ alive[p] /\ task_kind[p] = "reload" /\ buf_[p] = NoBuf
        /\ ser_buf_size_[p] >= 1 /\ InMemoryPages = {p}
        /\ in_memory_size = ser_buf_size_[p]

\* C18. An acquisition that is attached and pulsed is attached to a live
\* page with its buffer present, so get_buf_read, get_buf_write and
\* get_buf_size find the buffer, and the buffer is not evicted before the
\* acquisition detaches.
PulsedHasBuf ==
    /\ [](/\ \A a \in Acqs :
                 (acq_page_[a] # NULL /\ buf_ready_signal_[a] >= 1) =>
                     /\ alive[acq_page_[a]]
                     /\ buf_[acq_page_[a]] # NoBuf
                     /\ ser_buf_size_[acq_page_[a]] # 0
          /\ crashed \notin {"get_page_buf: buf_.has()",
                              "get_page_buf_size: buf_.has()",
                              "get_page_buf_size: ser_buf_size_ != 0"})
    /\ [][\A a \in Acqs :
             (acq_page_[a] # NULL /\ buf_ready_signal_[a] >= 1
                /\ acq_page_'[a] = acq_page_[a]) =>
                 /\ buf_ready_signal_'[a] = buf_ready_signal_[a]
                 /\ buf_'[acq_page_[a]] # NoBuf]_vars

\* the acquisition of a copy load was pulsed by its copyee and has not copied yet
PulsedHasBufWitness ==
    \E q \in Pages, h \in Holders :
        /\ task_kind[q] = "copy" /\ buf_ready_signal_[TaskAcq(q)] = 1
        /\ buf_[task_arg[q]] # NoBuf
        /\ acq_page_[h] = task_arg[q] /\ buf_ready_signal_[h] = 1

\* C19. get_buf_write releases the block token of a page that has waiters, so
\* a page with a token holds what is on disk; a loaded page without token
\* keeps its buffer until it is destroyed, is never in the evicted bag, and is
\* in the evictable unbacked bag once its last waiter detached.
Unbacked(p) ==
    alive[p] /\ buf_[p] # NoBuf /\ block_token_[p] = NoToken

WrittenKept ==
    /\ [](/\ \A p \in Pages :
                 /\ (alive[p] /\ buf_[p] # NoBuf /\ block_token_[p] # NoToken)
                        => buf_[p] = block_read(block_token_[p])
                 /\ Unbacked(p) =>
                        bag[p] = IF waiters_[p] = <<>> THEN "evictable_unbacked"
                                 ELSE "unevictable"
                 /\ token_dropped = p =>
                        /\ Unbacked(p) /\ waiters_[p] # <<>>
                        /\ \E h \in Holders :
                               acq_page_[h] = p /\ buf_[p] = view[h]
          /\ crashed # "reset_block_token: !waiters_.empty()")
    /\ [][\A p \in Pages :
             /\ (Unbacked(p) /\ alive'[p]) => Unbacked(p)' /\ bag'[p] # "evicted"
             /\ (alive[p] /\ block_token_[p] # NoToken /\ alive'[p]
                    /\ block_token_'[p] = NoToken) => token_dropped' = p]_vars

\* a write has just released the token of a page loaded from disk
WrittenKeptWitness ==
    \E p \in Pages, h \in Holders :
        /\ token_dropped = p /\ alive[p] /\ acq_page_[h] = p /\ writer[h]
        /\ buf_[p] # NoBuf /\ block_token_[p] = NoToken
        /\ buf_[p] # DiskContent(NumBlocks) /\ bag[p] = "unevictable"

\* C20. With every serializer read returning and the load coroutines run
\* fairly, an acquisition that is attached is eventually pulsed or detached:
\* no acquisition stays attached and unpulsed forever, on a page loaded from a
\* block id, copied from another page, or reloaded after eviction.
EventuallyPulsed ==
    \A a \in Acqs :
        (acq_page_[a] # NULL) ~>
            (buf_ready_signal_[a] >= 1 \/ acq_page_[a] = NULL)

\* an acquisition waits on a copy whose load waits on a copyee that is itself
\* being read from disk
EventuallyPulsedWitness ==
    \E h \in Holders, q \in Pages :
        /\ acq_page_[h] = q /\ alive[q] /\ task_kind[q] = "copy"
        /\ buf_ready_signal_[h] = 0 /\ buf_ready_signal_[TaskAcq(q)] = 0
        /\ task_kind[task_arg[q]] \in {"cold", "reload"}

====
